---- MODULE Spec2Model ----
(***************************************************************************)
(* FOMO Voice Club: the persisted hand-raise queue (routes/hand_raise.py), *)
(* the in-memory live room registry (routes/live_sessions.py,              *)
(* LiveRoomManager) and the session routes of routes/live_sessions.py.     *)
(*                                                                         *)
(* Both run on a single-threaded asyncio event loop: a handler runs        *)
(* without interruption from one `await` to the next, and other handlers   *)
(* may run at every `await`.  Each action below is one such segment: the   *)
(* awaited operation (a database call, a WebSocket send or receive)        *)
(* together with the synchronous code that follows it up to the next       *)
(* await.                                                                  *)
(***************************************************************************)
EXTENDS Integers, Sequences, FiniteSets, Bags, TLC

(***************************************************************************)
(* Bounds of the model.                                                    *)
(***************************************************************************)
\* the HandRaiseEvent documents inserted in a behaviour
MaxEvents == 2
\* the end_speech calls that find their record in a behaviour
MaxSpeeches == 1

(***************************************************************************)
(* Program constants.                                                      *)
(***************************************************************************)
\* the limit used when club_settings does not set one
DefaultQueueLimit == 10
\* priority_score of a user document that has none
DefaultPriority == 50
\* XP awarded by raise_hand and by end_speech
XpHandRaised == 20
XpSpeechGiven == 100

NULL == "null"

VARIABLES
    \* ---- MongoDB collections used by routes/hand_raise.py
    users,              \* db.users: user_id -> document
    live_sessions,      \* db.live_sessions: session_id -> document
    hand_raise_events,  \* db.hand_raise_events in insertion (natural) order
    club_settings,      \* db.club_settings: no document or one
    \* ---- the HTTP requests in flight
    req,                \* the bag of handlers suspended at an await
    response,           \* the HTTP response the last step returned, if it returned one
    approvals           \* hand_raise_id -> approve_speaker calls that returned success

hrVars == <<users, live_sessions, hand_raise_events, club_settings, req, response, approvals>>

(***************************************************************************)
(* The database as seeded.                                                 *)
(***************************************************************************)
\* ids of the documents of db.users
DbUsers == {"u1", "u2", "u3"}
\* a user_id no document has
UnknownUser == "ux"
UserIds == DbUsers \cup {UnknownUser}
\* s1 is live, s2 exists and is not live, s0 does not exist
DbSessions == {"s1", "s2"}
SessionIds == DbSessions \cup {"s0"}
\* the handlers that are suspended at an await at once in Spec
Overlap == {"a", "b"}

SeedRole(u) == IF u = "u3" THEN "moderator" ELSE "listener"
SeedPriority(u) == IF u = "u2" THEN 90 ELSE DefaultPriority

(***************************************************************************)
(* Queries of routes/hand_raise.py on the collections.                     *)
(***************************************************************************)
EventIds == DOMAIN hand_raise_events
\* the ids a request may name: those of the documents and one of no document
HandRaiseIds == 1..(Len(hand_raise_events) + 1)

\* check_moderator_permission: the role test on the user document found
CheckModeratorPermissionLax(user_id) ==
    user_id \in DOMAIN users

CheckModeratorPermission(user_id) ==
    /\ user_id \in DOMAIN users
    /\ users[user_id].role \in {"moderator", "admin", "owner"}

\* find_one({"id": session_id, "is_live": True}) finds a document
FindLiveSession(session_id) ==
    /\ session_id \in DOMAIN live_sessions
    /\ live_sessions[session_id].is_live

\* the documents matching {"user_id", "live_session_id", "status": "pending"}
PendingOf(user_id, session_id) ==
    {i \in EventIds : /\ hand_raise_events[i].user_id = user_id
                      /\ hand_raise_events[i].live_session_id = session_id
                      /\ hand_raise_events[i].status = "pending"}

\* the documents matching {"live_session_id", "status": "pending"}
PendingIn(session_id) ==
    {i \in EventIds : /\ hand_raise_events[i].live_session_id = session_id
                      /\ hand_raise_events[i].status = "pending"}

\* find_one returns the first match in natural order, 0 stands for None
FindOne(matches) ==
    IF matches = {} THEN 0 ELSE CHOOSE i \in matches : \A j \in matches : i <= j

\* find_one({"id": hand_raise_id, "live_session_id": ..., "status": status})
FindEvent(hand_raise_id, session_id, status) ==
    FindOne({i \in EventIds : /\ i = hand_raise_id
                              /\ hand_raise_events[i].live_session_id = session_id
                              /\ hand_raise_events[i].status = status})

\* club_settings.get('hand_raise_queue_limit', 10) if club_settings else 10
QueueLimitOf(settings) ==
    IF settings = {} THEN DefaultQueueLimit
    ELSE (CHOOSE d \in settings : TRUE).hand_raise_queue_limit

\* pending_count >= queue_limit
QueueIsFull(pending_count, queue_limit) == pending_count >= queue_limit

\* the orders .sort("priority_score", -1) may return: MongoDB orders documents
\* with equal sort keys arbitrarily
SortedByPriority(ids) ==
    {q \in [1..Cardinality(ids) -> ids] :
        /\ \A a, b \in DOMAIN q : a # b => q[a] # q[b]
        /\ \A a, b \in DOMAIN q :
              a < b => hand_raise_events[q[a]].priority_score
                         >= hand_raise_events[q[b]].priority_score}


(***************************************************************************)
(* Handlers in flight.  A handler is the record of its arguments, the      *)
(* await it is suspended at (pc) and its local variables.                  *)
(***************************************************************************)
NewReq(op, session_id, user_id, hand_raise_id, moderator_id) ==
    [op |-> op, pc |-> "start", session_id |-> session_id, user_id |-> user_id,
     hand_raise_id |-> hand_raise_id, moderator_id |-> moderator_id,
     priority_score |-> 0, queue_limit |-> 0, speaker_id |-> UnknownUser,
     current_xp |-> 0, queue |-> <<>>, writes |-> 0]

\* no response is being returned
NoResponse ==
    [op |-> "none", result |-> "none", queue |-> <<>>, writes |-> 0]

InFlight == BagToSet(req)

\* a new handler r suspends at its first await that a later step completes
Spawn(r) ==
    /\ req' = req (+) SetToBag({r})
    /\ response' = NoResponse

\* handler r goes on to its next await as r2
Step(r, r2) ==
    /\ req' = (req (-) SetToBag({r})) (+) SetToBag({r2})
    /\ response' = NoResponse

\* handler r returns as r2: an HTTPException (result # "ok") or its response
\* what the model keeps of a response: the route, the HTTPException or "ok",
\* the queue returned, and the number of writes the handler has made
ResponseOf(r, result) ==
    [op |-> r.op, result |-> result, queue |-> r.queue, writes |-> r.writes]

Return(r, r2, result) ==
    /\ req' = req (-) SetToBag({r})
    /\ response' = ResponseOf(r2, result)

\* a request is refused before its handler is suspended anywhere
Refuse(r, result) ==
    /\ req' = req
    /\ response' = ResponseOf(r, result)

\* the documents inserted, and those raise_hand handlers in flight will insert
EventsStarted ==
    LET S == {r \in InFlight : r.op = "raise_hand"
                               /\ r.pc \in {"find_existing", "count_pending", "insert"}}
        RECURSIVE Sum(_)
        Sum(T) == IF T = {} THEN 0
                  ELSE LET x == CHOOSE y \in T : TRUE IN CopiesIn(x, req) + Sum(T \ {x})
    IN  Len(hand_raise_events) + Sum(S)

\* end_speech handlers that found their record, and the speeches already counted
SpeechesStarted ==
    LET S == {r \in InFlight : r.op = "end_speech"
                               /\ r.pc \in {"es_update", "es_session", "es_inc"}}
        RECURSIVE Sum(_)
        Sum(T) == IF T = {} THEN 0
                  ELSE LET x == CHOOSE y \in T : TRUE IN CopiesIn(x, req) + Sum(T \ {x})
        RECURSIVE Total(_)
        Total(U) == IF U = {} THEN 0
                    ELSE LET u == CHOOSE y \in U : TRUE
                         IN  users[u].total_speeches + Total(U \ {u})
    IN  Sum(S) + Total(DOMAIN users)

HRInit ==
    /\ users = [u \in DbUsers |->
                  [role |-> SeedRole(u), priority_score |-> SeedPriority(u),
                   xp_total |-> 0, hand_raise_count |-> 0, total_speeches |-> 0]]
    /\ live_sessions = [s \in DbSessions |->
                  [is_live |-> (s = "s1"), current_speaker_id |-> NULL,
                   status |-> IF s = "s1" THEN "live" ELSE "ended",
                   hand_raise_queue |-> <<>>]]
    /\ hand_raise_events = <<>>
    /\ req = EmptyBag
    /\ response = NoResponse
    /\ approvals = <<>>

(***************************************************************************)
(* raise_hand                                                              *)
(***************************************************************************)
\* the request arrives; lines 87-94.  No handler modelled here changes
\* is_live or removes a user document, so both lookups are one step; the
\* user document found is kept (its priority_score is read at line 118).
RaiseHandFindUser ==
    \E s \in SessionIds, u \in UserIds :
        /\ LET r == NewReq("raise_hand", s, u, 0, UnknownUser)
           IN  IF ~FindLiveSession(s) THEN Refuse(r, "session_not_found")
               ELSE IF u \notin DOMAIN users THEN Refuse(r, "user_not_found")
               ELSE Spawn([r EXCEPT !.pc = "find_existing",
                                    !.priority_score = users[u].priority_score])
        /\ UNCHANGED <<users, live_sessions, hand_raise_events, club_settings, approvals>>

\* lines 97-107: the pending record of the user, then the club settings
RaiseHandFindExisting ==
    \E r \in InFlight :
        /\ r.op = "raise_hand" /\ r.pc = "find_existing"
        /\ IF FindOne(PendingOf(r.user_id, r.session_id)) # 0
           THEN Return(r, r, "already_raised")
           ELSE Step(r, [r EXCEPT !.pc = "count_pending",
                                  !.queue_limit = QueueLimitOf(club_settings)])
        /\ UNCHANGED <<users, live_sessions, hand_raise_events, club_settings, approvals>>

\* lines 109-128
RaiseHandCount ==
    \E r \in InFlight :
        /\ r.op = "raise_hand" /\ r.pc = "count_pending"
        /\ LET pending_count == Cardinality(PendingIn(r.session_id))
           IN  IF QueueIsFull(pending_count, r.queue_limit)
               THEN Return(r, r, "queue_full")
               ELSE Step(r, [r EXCEPT !.pc = "insert"])
        /\ UNCHANGED <<users, live_sessions, hand_raise_events, club_settings, approvals>>

\* line 130
RaiseHandInsert ==
    \E r \in InFlight :
        /\ r.op = "raise_hand" /\ r.pc = "insert"
        /\ hand_raise_events' = Append(hand_raise_events,
               [user_id |-> r.user_id, live_session_id |-> r.session_id,
                status |-> "pending", priority_score |-> r.priority_score,
                speech_ended |-> FALSE])
        /\ approvals' = Append(approvals, 0)
        /\ Step(r, [r EXCEPT !.pc = "xp_find", !.writes = r.writes + 1])
        /\ UNCHANGED <<users, live_sessions, club_settings>>

\* the user whose XP and voice stats the handler updates
XpUser(r) == IF r.op = "raise_hand" THEN r.user_id ELSE r.speaker_id
XpAmount(r) == IF r.op = "raise_hand" THEN XpHandRaised ELSE XpSpeechGiven

\* award_xp_for_action, lines 48-56: the transaction is logged, the user read
AwardXpFind ==
    \E r \in InFlight :
        /\ r.pc = "xp_find"
        /\ Step(r, [r EXCEPT !.pc = "xp_update",
                             !.current_xp = users[XpUser(r)].xp_total])
        /\ UNCHANGED <<users, live_sessions, hand_raise_events, club_settings, approvals>>

\* award_xp_for_action, lines 67-73: xp_total is set from the value read.
\* end_speech then stores the success rate and returns (lines 358-376).
AwardXpUpdate ==
    \E r \in InFlight :
        /\ r.pc = "xp_update"
        /\ users' = [users EXCEPT ![XpUser(r)].xp_total = r.current_xp + XpAmount(r)]
        /\ IF r.op = "raise_hand"
           THEN Step(r, [r EXCEPT !.pc = "inc_stats", !.current_xp = 0,
                                  !.writes = r.writes + 1])
           ELSE Return(r, [r EXCEPT !.writes = r.writes + 1], "ok")
        /\ UNCHANGED <<live_sessions, hand_raise_events, club_settings, approvals>>

\* lines 138-151
RaiseHandIncStats ==
    \E r \in InFlight :
        /\ r.op = "raise_hand" /\ r.pc = "inc_stats"
        /\ users' = [users EXCEPT ![r.user_id].hand_raise_count = @ + 1]
        /\ Return(r, [r EXCEPT !.writes = r.writes + 1], "ok")
        /\ UNCHANGED <<live_sessions, hand_raise_events, club_settings, approvals>>

(***************************************************************************)
(* lower_hand                                                              *)
(***************************************************************************)
\* the request arrives; lines 165-172
LowerHandFind ==
    \E s \in SessionIds, u \in UserIds :
        /\ LET r == NewReq("lower_hand", s, u, 0, UnknownUser)
               hand_raise == FindOne(PendingOf(u, s))
           IN  IF hand_raise = 0
               THEN Refuse(r, "no_pending_hand_raise")
               ELSE Spawn([r EXCEPT !.pc = "lh_update", !.hand_raise_id = hand_raise])
        /\ UNCHANGED <<users, live_sessions, hand_raise_events, club_settings, approvals>>

\* lines 175-180: update_one({"id": hand_raise['id']}, status expired)
LowerHandUpdate ==
    \E r \in InFlight :
        /\ r.op = "lower_hand" /\ r.pc = "lh_update"
        /\ hand_raise_events' =
              [hand_raise_events EXCEPT ![r.hand_raise_id].status = "expired"]
        /\ Return(r, [r EXCEPT !.writes = r.writes + 1], "ok")
        /\ UNCHANGED <<users, live_sessions, club_settings, approvals>>

(***************************************************************************)
(* get_hand_raise_queue                                                    *)
(***************************************************************************)
\* the request arrives; lines 190-193
GetQueueFind ==
    \E s \in SessionIds :
        /\ \E q \in SortedByPriority(PendingIn(s)) :
              Spawn([NewReq("get_queue", s, UnknownUser, 0, UnknownUser)
                       EXCEPT !.pc = "gq_enrich", !.queue = q])
        /\ UNCHANGED <<users, live_sessions, hand_raise_events, club_settings, approvals>>

\* lines 196-217: the records whose user document is found, in the order read
GetQueueEnrich ==
    \E r \in InFlight :
        /\ r.op = "get_queue" /\ r.pc = "gq_enrich"
        /\ Return(r, [r EXCEPT !.queue =
                     SelectSeq(r.queue, LAMBDA i : hand_raise_events[i].user_id \in DOMAIN users)],
                  "ok")
        /\ UNCHANGED <<users, live_sessions, hand_raise_events, club_settings, approvals>>

(***************************************************************************)
(* approve_speaker                                                         *)
(***************************************************************************)
\* the request arrives; lines 232-246.  No handler modelled here changes a
\* role, so the permission lookup and the find are one step.
ApproveFind ==
    \E s \in SessionIds, h \in HandRaiseIds, m \in UserIds :
        /\ LET r == NewReq("approve_speaker", s, UnknownUser, h, m)
               hand_raise == FindEvent(h, s, "pending")
           IN  IF ~CheckModeratorPermission(m) THEN Refuse(r, "forbidden")
               ELSE IF hand_raise = 0 THEN Refuse(r, "not_found_or_processed")
               ELSE Spawn([r EXCEPT !.pc = "ap_update",
                                    !.speaker_id = hand_raise_events[hand_raise].user_id])
        /\ UNCHANGED <<users, live_sessions, hand_raise_events, club_settings, approvals>>

\* lines 249-259: update_one({"id": hand_raise_id}, status approved)
ApproveUpdateEvent ==
    \E r \in InFlight :
        /\ r.op = "approve_speaker" /\ r.pc = "ap_update"
        /\ hand_raise_events' =
              [hand_raise_events EXCEPT ![r.hand_raise_id].status = "approved"]
        /\ Step(r, [r EXCEPT !.pc = "ap_session", !.writes = r.writes + 1])
        /\ UNCHANGED <<users, live_sessions, club_settings, approvals>>

\* lines 262-275: update_one({"id": session_id}, current_speaker_id), the
\* speaker's document is read and the response returned
ApproveUpdateSession ==
    \E r \in InFlight :
        /\ r.op = "approve_speaker" /\ r.pc = "ap_session"
        /\ live_sessions' = [live_sessions EXCEPT
                               ![r.session_id].current_speaker_id = r.speaker_id]
        /\ approvals' = [approvals EXCEPT ![r.hand_raise_id] = @ + 1]
        /\ Return(r, [r EXCEPT !.writes = r.writes + 1], "ok")
        /\ UNCHANGED <<users, hand_raise_events, club_settings>>

(***************************************************************************)
(* end_speech                                                              *)
(***************************************************************************)
\* the request arrives; lines 290-317
EndSpeechFind ==
    \E s \in SessionIds, h \in HandRaiseIds, m \in UserIds :
        /\ LET r == NewReq("end_speech", s, UnknownUser, h, m)
               hand_raise == FindEvent(h, s, "approved")
           IN  IF ~CheckModeratorPermission(m) THEN Refuse(r, "forbidden")
               ELSE IF hand_raise = 0 THEN Refuse(r, "active_speech_not_found")
               ELSE Spawn([r EXCEPT !.pc = "es_update",
                                    !.speaker_id = hand_raise_events[hand_raise].user_id])
        /\ UNCHANGED <<users, live_sessions, hand_raise_events, club_settings, approvals>>

\* lines 320-328: speech_ended_at and the duration are set, the status is not
EndSpeechUpdateEvent ==
    \E r \in InFlight :
        /\ r.op = "end_speech" /\ r.pc = "es_update"
        /\ hand_raise_events' =
              [hand_raise_events EXCEPT ![r.hand_raise_id].speech_ended = TRUE]
        /\ Step(r, [r EXCEPT !.pc = "es_session", !.writes = r.writes + 1])
        /\ UNCHANGED <<users, live_sessions, club_settings, approvals>>

\* lines 331-334
EndSpeechClearSpeaker ==
    \E r \in InFlight :
        /\ r.op = "end_speech" /\ r.pc = "es_session"
        /\ live_sessions' = [live_sessions EXCEPT
                               ![r.session_id].current_speaker_id = NULL]
        /\ Step(r, [r EXCEPT !.pc = "es_inc", !.writes = r.writes + 1])
        /\ UNCHANGED <<users, hand_raise_events, club_settings, approvals>>

\* lines 337-349
EndSpeechIncStats ==
    \E r \in InFlight :
        /\ r.op = "end_speech" /\ r.pc = "es_inc"
        /\ users' = [users EXCEPT ![r.speaker_id].total_speeches = @ + 1]
        /\ Step(r, [r EXCEPT !.pc = "xp_find", !.writes = r.writes + 1])
        /\ UNCHANGED <<live_sessions, hand_raise_events, club_settings, approvals>>

(***************************************************************************)
(* LiveRoomManager (routes/live_sessions.py) and the websocket handler     *)
(* live_room_websocket.  The handlers are coroutines of one event loop: an *)
(* action is the code a handler runs from one suspension to the next.  A   *)
(* handler is suspended in websocket.accept(), in websocket.receive_text() *)
(* and in every send_json(); the event is handed to the socket when        *)
(* send_json is called, and the coroutine may be suspended before it       *)
(* returns.  award_session_xp writes only to db.users and                  *)
(* db.xp_transactions; the wait for it is joined with the wait that        *)
(* follows it.                                                             *)
(***************************************************************************)
\* websocket connections opened
MaxConns == 2
\* client messages the handlers read
MaxMessages == 2
\* chat messages posted to the room in SpecChat
MaxChats == 150
\* handle_chat, line 265: the chat history keeps this many messages
ChatCap == 100

VARIABLES
    connections,   \* room_manager.connections[session_id]: the dict user_id -> WebSocket
    rooms,         \* room_manager.rooms[session_id]: the room state
    ws,            \* websocket -> its handler coroutine live_room_websocket
    alive,         \* websocket -> the socket is open
    received,      \* open websocket -> what its client has received so far
    joined,        \* the user_ids connect has registered
    msgs           \* client messages read so far

roomVars == <<connections, rooms, ws, alive, received, joined, msgs>>

\* the websockets, in the order they are opened
Conns == 1..MaxConns
\* the user_id and role query parameters clients connect with
WsUsers == {"u1", "u2"}
Roles == {"speaker", "listener"}

\* ---- the dict self.connections[session_id].  CPython keeps the items in
\* ---- an entries array in insertion order; del leaves a dummy entry, a new
\* ---- key is appended, and an existing key keeps its entry.  The array is
\* ---- not compacted before the sixth insertion into one dict.
DummyEntry == [user_id |-> NULL, websocket |-> 0]
NoDict == [present |-> FALSE, gen |-> 0, entries |-> <<>>]

Used(d) == {i \in DOMAIN d.entries : d.entries[i].user_id # NULL}
Keys(d) == {d.entries[i].user_id : i \in Used(d)}
EntryOf(d, user_id) == CHOOSE i \in Used(d) : d.entries[i].user_id = user_id
Lookup(d, user_id) == d.entries[EntryOf(d, user_id)].websocket

\* connect, lines 135-138
Register(d, user_id, websocket) ==
    LET d1 == IF d.present THEN d
              ELSE [present |-> TRUE, gen |-> d.gen + 1, entries |-> <<>>]
    IN  IF user_id \in Keys(d1)
        THEN [d1 EXCEPT !.entries[EntryOf(d1, user_id)].websocket = websocket]
        ELSE [d1 EXCEPT !.entries =
                  Append(@, [user_id |-> user_id, websocket |-> websocket])]

\* disconnect, lines 178-182
Unregister(d, user_id) ==
    IF d.present /\ user_id \in Keys(d)
    THEN LET d1 == [d EXCEPT !.entries[EntryOf(d, user_id)] = DummyEntry]
         IN  IF Used(d1) = {} THEN [d1 EXCEPT !.present = FALSE, !.entries = <<>>]
             ELSE d1
    ELSE d

\* ---- the room state
NoRoom == [present |-> FALSE, participants |-> <<>>, speakers |-> <<>>,
           listeners |-> <<>>, hand_raised |-> <<>>, chat_messages |-> <<>>]

\* x in list, list.remove(x), and the guarded append
In(x, list) == \E i \in DOMAIN list : list[i] = x
ListRemove(list, x) ==
    LET i == CHOOSE k \in DOMAIN list :
                 list[k] = x /\ \A j \in 1..(k - 1) : list[j] # x
    IN  SubSeq(list, 1, i - 1) \o SubSeq(list, i + 1, Len(list))
Discard(list, x) == IF In(x, list) THEN ListRemove(list, x) ELSE list
AppendNew(list, x) == IF In(x, list) THEN list ELSE Append(list, x)

\* get_room, lines 118-129
GetRoom(room) == IF room.present THEN room ELSE [NoRoom EXCEPT !.present = TRUE]

\* connect, lines 141-147: room["participants"][user_id] = {...}
AddParticipantLost(participants, user_id, role) == participants
AddParticipant(participants, user_id, role) ==
    [u \in DOMAIN participants \cup {user_id} |->
        IF u = user_id THEN role ELSE participants[u]]

\* connect, lines 140-154
Join(room, user_id, role) ==
    LET r == GetRoom(room)
        r1 == [r EXCEPT !.participants = AddParticipant(@, user_id, role)]
    IN  IF role = "speaker"
        THEN [r1 EXCEPT !.speakers = AppendNew(@, user_id)]
        ELSE [r1 EXCEPT !.listeners = AppendNew(@, user_id)]

\* disconnect, lines 185-193
LeaveKeepsHand(room, user_id) ==
    [room EXCEPT
        !.participants = [u \in DOMAIN @ \ {user_id} |-> @[u]],
        !.speakers = Discard(@, user_id),
        !.listeners = Discard(@, user_id)]
Leave(room, user_id) ==
    [room EXCEPT
        !.participants = [u \in DOMAIN @ \ {user_id} |-> @[u]],
        !.speakers = Discard(@, user_id),
        !.listeners = Discard(@, user_id),
        !.hand_raised = Discard(@, user_id)]

\* handle_hand_raise, lines 285-290
HandRaiseAgain(room, user_id, action) ==
    LET r == GetRoom(room)
    IN  IF action = "raise" THEN [r EXCEPT !.hand_raised = Append(@, user_id)]
        ELSE [r EXCEPT !.hand_raised = Discard(@, user_id)]
HandRaise(room, user_id, action) ==
    LET r == GetRoom(room)
    IN  IF action = "raise" /\ ~In(user_id, r.hand_raised)
        THEN [r EXCEPT !.hand_raised = Append(@, user_id)]
        ELSE IF action = "lower" /\ In(user_id, r.hand_raised)
        THEN [r EXCEPT !.hand_raised = ListRemove(@, user_id)]
        ELSE r

\* get_stats, lines 242-250: the room map after the call, and the counts
GetStats(room) ==
    LET r == GetRoom(room)
    IN  [rooms |-> r,
         stats |-> [total_participants |-> Cardinality(DOMAIN r.participants),
                    speakers_count |-> Len(r.speakers),
                    listeners_count |-> Len(r.listeners),
                    hand_raised_count |-> Len(r.hand_raised)]]

\* handle_chat, lines 265-266: chat_messages[-100:] when longer than 100
KeepFirst(list) ==
    IF Len(list) > ChatCap THEN SubSeq(list, 1, ChatCap) ELSE list
KeepLast(list) ==
    IF Len(list) > ChatCap
    THEN SubSeq(list, Len(list) - ChatCap + 1, Len(list)) ELSE list

\* handle_chat, lines 254-266
HandleChat(room, chat_msg) ==
    [GetRoom(room) EXCEPT !.chat_messages = KeepLast(Append(@, chat_msg))]

\* promote_to_speaker, lines 302-312
PromoteKeepsListener(room, user_id) ==
    [GetRoom(room) EXCEPT !.speakers = AppendNew(@, user_id)]
Promote(room, user_id) ==
    LET r == GetRoom(room)
    IN  [r EXCEPT
           !.listeners = Discard(@, user_id),
           !.speakers = AppendNew(@, user_id),
           !.hand_raised = Discard(@, user_id),
           !.participants = IF user_id \in DOMAIN @
                            THEN [@ EXCEPT ![user_id] = "speaker"] ELSE @]

\* demote_to_listener, lines 322-330
Demote(room, user_id) ==
    LET r == GetRoom(room)
    IN  [r EXCEPT
           !.speakers = Discard(@, user_id),
           !.listeners = AppendNew(@, user_id),
           !.participants = IF user_id \in DOMAIN @
                            THEN [@ EXCEPT ![user_id] = "listener"] ELSE @]

\* ---- a handler between two suspensions.  w carries the manager's state
\* ---- as the running code has changed it, the handler's stack of broadcast
\* ---- calls, and how the run ends: out = "send" (send_json handed msg to
\* ---- the websocket `to`), "fail" (send_json raised), "return" (the
\* ---- manager call returned to the endpoint) or "raise" (RuntimeError
\* ---- propagates to the endpoint).
Event(type, user_id) == [type |-> type, user_id |-> user_id]

World(c) ==
    [connections |-> connections, rooms |-> rooms, stack |-> ws[c].stack,
     ctx |-> ws[c].ctx, user_id |-> ws[c].user_id,
     out |-> "none", to |-> 0, msg |-> Event("none", NULL)]

\* the locals of a call of broadcast or broadcast_except: the message, the
\* dict iterator (the dict it iterates, di_used, di_pos, len) and the list
\* `disconnected`; todo is what `for user_id in disconnected` has left
NewFrame(d, msg, except_user_id) ==
    [msg |-> msg, except_user_id |-> except_user_id,
     gen |-> d.gen, used |-> Cardinality(Used(d)), pos |-> 0,
     len |-> Cardinality(Used(d)), disconnected |-> <<>>, todo |-> <<>>]

MinOf(S) == CHOOSE i \in S : \A j \in S : i <= j

\* broadcast_except, lines 224-225
SkipsNobody(user_id, except_user_id) == FALSE
Skips(user_id, except_user_id) == user_id = except_user_id

RECURSIVE Advance(_), Finish(_), Disconnect(_, _)

\* the callee returned: to the endpoint, or into the loop of line 214 / 231
Returned(w) == IF w.stack = <<>> THEN [w EXCEPT !.out = "return"] ELSE Finish(w)

\* broadcast, lines 204-208, and broadcast_except, lines 219-223
Broadcast(w, msg, except_user_id) ==
    IF ~w.connections.present THEN Returned(w)
    ELSE Advance([w EXCEPT !.stack =
                     Append(@, NewFrame(w.connections, msg, except_user_id))])

\* the for loop of lines 208-212 / 223-229 takes its next item: the dict
\* iterator raises RuntimeError when the dict has another size than when the
\* iteration began, or when it finds an entry after it has returned len items
Advance(w) ==
    LET n == Len(w.stack)
        f == w.stack[n]
        d == w.connections
        rest == {i \in Used(d) : i > f.pos}
    IN  IF ~d.present \/ d.gen # f.gen \/ Cardinality(Used(d)) # f.used
        THEN [w EXCEPT !.out = "raise"]
        ELSE IF rest = {}
        THEN Finish([w EXCEPT !.stack[n].todo = f.disconnected])
        ELSE IF f.len = 0
        THEN [w EXCEPT !.out = "raise"]
        ELSE LET e == d.entries[MinOf(rest)]
                 f1 == [f EXCEPT !.pos = MinOf(rest), !.len = @ - 1]
             IN  IF Skips(e.user_id, f.except_user_id)
                 THEN Advance([w EXCEPT !.stack[n] = f1])
                 ELSE IF alive[e.websocket]
                 THEN [w EXCEPT !.stack[n] = f1, !.out = "send",
                                !.to = e.websocket, !.msg = f.msg]
                 ELSE [w EXCEPT !.stack[n] =
                           [f1 EXCEPT !.disconnected = Append(@, e.user_id)],
                                !.out = "fail"]

\* lines 214-215 / 231-232: for user_id in disconnected: disconnect(user_id)
Finish(w) ==
    LET n == Len(w.stack)
        f == w.stack[n]
    IN  IF f.todo = <<>>
        THEN Returned([w EXCEPT !.stack = SubSeq(w.stack, 1, n - 1)])
        ELSE Disconnect([w EXCEPT !.stack[n].todo = Tail(f.todo)], Head(f.todo))

\* disconnect, lines 176-200
Disconnect(w, user_id) ==
    LET w1 == [w EXCEPT
                 !.connections = Unregister(@, user_id),
                 !.rooms = IF @.present THEN Leave(@, user_id) ELSE @]
    IN  IF w.rooms.present
        THEN Broadcast(w1, Event("user_left", user_id), NULL)
        ELSE Returned(w1)

\* live_room_websocket, lines 1092-1155: an exception raised while a message
\* is handled is caught by `except Exception`, which calls disconnect; one
\* raised in connect (line 1079) or in that disconnect ends the handler
Caught(w) ==
    IF w.out = "raise" /\ w.ctx = "message"
    THEN Disconnect([w EXCEPT !.stack = <<>>, !.ctx = "except", !.out = "none"],
                    w.user_id)
    ELSE w

\* send_to_user, lines 234-240: the websockets the message is handed to
SendToUserDropped(d, user_id, open) == {}
SendToUser(d, user_id, open) ==
    IF d.present /\ user_id \in Keys(d) /\ open[Lookup(d, user_id)]
    THEN {Lookup(d, user_id)} ELSE {}

\* ---- what a client has seen: the type of the first event it received,
\* ---- whether it received user_joined with its own user_id, and the
\* ---- room_state it received
NothingReceived ==
    [first |-> "none", own_join |-> FALSE,
     room_state |-> [seen |-> FALSE, participants |-> {}]]

Deliver(to, msg) ==
    [received EXCEPT ![to] =
        [@ EXCEPT !.first = IF @ = "none" THEN msg.type ELSE @,
                  !.own_join = @ \/ (/\ msg.type = "user_joined"
                                     /\ msg.user_id = ws[to].user_id)]]

\* a handler that has not started, and one that has ended
NotStarted == [pc |-> "new", user_id |-> NULL, role |-> NULL, ctx |-> "none", stack |-> <<>>]
Ended == [NotStarted EXCEPT !.pc = "done"]

\* the handler c is suspended again, or has ended
Settle(c, w0) ==
    LET w == Caught(w0)
        pc == IF w.out \in {"send", "fail"} THEN "broadcast"
              ELSE IF w.out = "return" /\ w.ctx # "except" THEN "receive"
              ELSE "done"
    IN  /\ connections' = w.connections
        /\ rooms' = w.rooms
        /\ ws' = [ws EXCEPT ![c] =
                     IF pc = "done" THEN Ended
                     ELSE [@ EXCEPT !.pc = pc, !.ctx = w.ctx,
                                    !.stack = IF pc = "broadcast" THEN w.stack ELSE <<>>]]
        /\ alive' = IF pc = "done" THEN [alive EXCEPT ![c] = FALSE] ELSE alive
        /\ received' = IF w.out = "send" THEN Deliver(w.to, w.msg)
                       ELSE IF pc = "done"
                       THEN [received EXCEPT ![c] = NothingReceived]
                       ELSE received

RoomInit ==
    /\ connections = NoDict
    /\ rooms = NoRoom
    /\ ws = [c \in Conns |-> NotStarted]
    /\ alive = [c \in Conns |-> FALSE]
    /\ received = [c \in Conns |-> NothingReceived]
    /\ joined = {}
    /\ msgs = 0

\* the clients are named in the order they connect; the first one is u1
UsersOf(c) == IF c = 1 THEN {"u1"} ELSE WsUsers

\* find_one({"id": session_id}) and the check of line 1075
SessionIsOpen(session_id) ==
    /\ session_id \in DOMAIN live_sessions
    /\ live_sessions[session_id].status \in {"scheduled", "live", "active"}

Starts(c) ==
    /\ ws[c].pc = "new"
    /\ c > 1 => ws[c - 1].pc # "new"

\* live_room_websocket, lines 1069-1077: the session is missing or has
\* ended, and the endpoint closes the socket
WsReject(c) ==
    /\ Starts(c)
    /\ \E session_id \in SessionIds : ~SessionIsOpen(session_id)
    /\ ws' = [ws EXCEPT ![c] = Ended]
    /\ UNCHANGED <<connections, rooms, alive, received, joined, msgs>>

\* live_room_websocket, lines 1069-1079, and connect, lines 133-165.  Until
\* accept() returns the handler has not touched the manager, so the waits
\* for find_one and accept are joined with the opening of the socket; the
\* client may be gone (open = FALSE) when accept returns.  Then the
\* connection and the participant are registered and room_state is sent to
\* the joiner, without a suspension in between.
WsConnect(c) ==
    /\ Starts(c)
    /\ \E session_id \in SessionIds, user_id \in UsersOf(c), role \in Roles,
          open \in BOOLEAN :
          LET d == Register(connections, user_id, c)
              room == Join(rooms, user_id, role)
          IN  /\ SessionIsOpen(session_id)
              /\ connections' = d
              /\ rooms' = room
              /\ joined' = joined \cup {user_id}
              /\ alive' = [alive EXCEPT ![c] = open]
              /\ received' = [to \in Conns |->
                    IF to \in SendToUser(d, user_id, alive')
                    THEN [received[to] EXCEPT
                            !.first = IF @ = "none" THEN "room_state" ELSE @,
                            !.room_state = [seen |-> TRUE,
                                participants |-> DOMAIN room.participants]]
                    ELSE received[to]]
              /\ ws' = [ws EXCEPT ![c] = [pc |-> "joined", user_id |-> user_id,
                           role |-> role, ctx |-> "connect", stack |-> <<>>]]
    /\ UNCHANGED msgs

\* the client closes the socket, or the network drops it
ClientClose(c) ==
    /\ alive[c]
    /\ alive' = [alive EXCEPT ![c] = FALSE]
    /\ received' = [received EXCEPT ![c] = NothingReceived]
    /\ UNCHANGED <<connections, rooms, ws, joined, msgs>>

\* connect, lines 168-174: user_joined is broadcast to the others
ConnectBroadcast(c) ==
    /\ ws[c].pc = "joined"
    /\ Settle(c, Broadcast(World(c), Event("user_joined", ws[c].user_id),
                           ws[c].user_id))
    /\ UNCHANGED <<joined, msgs>>

\* a handler suspended in send_json inside broadcast or broadcast_except
\* resumes
BroadcastNext(c) ==
    /\ ws[c].pc = "broadcast"
    /\ Settle(c, Advance(World(c)))
    /\ UNCHANGED <<joined, msgs>>

\* receive_text returns a message of the client (line 1094)
Reads(c) ==
    /\ ws[c].pc = "receive"
    /\ alive[c]
    /\ msgs' = msgs + 1
    /\ UNCHANGED joined

Handling(c) == [World(c) EXCEPT !.ctx = "message"]

\* lines 1099-1103: {"type": "chat", "message": ...}; the chat message is
\* named by its place among the messages the handlers have read, as its id
\* and timestamp are by the clock
ReceiveChat(c) ==
    /\ Reads(c)
    /\ Settle(c, Broadcast([Handling(c) EXCEPT !.rooms = HandleChat(@, msgs')],
                           Event("chat_message", ws[c].user_id), NULL))

\* lines 1119-1121: handle_hand_raise(session_id, user_id, action)
HandRaiseBy(c, action) ==
    /\ Reads(c)
    /\ Settle(c, Broadcast(
          [Handling(c) EXCEPT !.rooms = HandRaise(@, ws[c].user_id, action)],
          Event("hand_raised_update", ws[c].user_id), NULL))

\* lines 1119-1121: {"type": "hand_raise", "action": ...}
ReceiveHandRaise(c) == \E action \in {"raise", "lower"} : HandRaiseBy(c, action)

\* lines 1126-1129: promote_to_speaker(session_id, target) for a speaker
PromoteTo(c, target) ==
    /\ Reads(c)
    /\ ws[c].role = "speaker"
    /\ Settle(c, Broadcast([Handling(c) EXCEPT !.rooms = Promote(@, target)],
                           Event("user_promoted", target), NULL))

\* lines 1126-1129: {"type": "promote", "target_user_id": ...}
ReceivePromote(c) == \E target \in WsUsers : PromoteTo(c, target)

\* lines 1133-1136: demote_to_listener(session_id, target) for a speaker
DemoteTo(c, target) ==
    /\ Reads(c)
    /\ ws[c].role = "speaker"
    /\ Settle(c, Broadcast([Handling(c) EXCEPT !.rooms = Demote(@, target)],
                           Event("user_demoted", target), NULL))

\* lines 1133-1136: {"type": "demote", "target_user_id": ...}
ReceiveDemote(c) == \E target \in WsUsers : DemoteTo(c, target)

\* lines 1109-1113: {"type": "reaction", ...}
ReceiveReaction(c) ==
    /\ Reads(c)
    /\ Settle(c, Broadcast(Handling(c), Event("reaction", ws[c].user_id), NULL))

\* lines 1138-1139: {"type": "ping"}
ReceivePing(c) ==
    /\ Reads(c)
    /\ received' = [to \in Conns |->
          IF to \in SendToUser(connections, ws[c].user_id, alive)
          THEN [received[to] EXCEPT !.first = IF @ = "none" THEN "pong" ELSE @]
          ELSE received[to]]
    /\ UNCHANGED <<connections, rooms, ws, alive>>

\* an object with a type the endpoint does not know, or promote / demote
\* from a connection whose role is not speaker: no branch is taken
ReceiveIgnored(c) ==
    /\ Reads(c)
    /\ UNCHANGED <<connections, rooms, ws, alive, received>>

\* texts a client may send that are not a JSON object: text that is not
\* JSON, an array nested deeper than the recursion limit, and an empty array
NotJson == "hello"
DeepArray == "[[[[..."
EmptyArray == "[]"
Texts == {NotJson, DeepArray, EmptyArray}

\* json.loads(data), line 1096: the exception it raises, or the type of the
\* value it returns
JsonLoads(data) ==
    CASE data = NotJson -> "JSONDecodeError"
      [] data = DeepArray -> "RecursionError"
      [] data = EmptyArray -> "list"

\* lines 1095-1097 and 1148-1155: JSONDecodeError is passed over; any other
\* exception of json.loads, and the AttributeError of message.get on a
\* value that is not an object, leave the loop for `except Exception`
ReceiveText(c, data) ==
    /\ Reads(c)
    /\ IF JsonLoads(data) = "JSONDecodeError"
       THEN UNCHANGED <<connections, rooms, ws, alive, received>>
       ELSE Settle(c, [Handling(c) EXCEPT !.out = "raise"])

\* text that is not JSON (lines 1148-1149)
ReceiveMalformed(c) == ReceiveText(c, NotJson)

\* JSON that json.loads gives up on with RecursionError (line 1096)
ReceiveTooDeep(c) == ReceiveText(c, DeepArray)

\* JSON that is not an object: message.get raises AttributeError (line 1097)
ReceiveNotObject(c) == ReceiveText(c, EmptyArray)

\* receive_text raises WebSocketDisconnect (lines 1151-1152)
ReceiveDisconnect(c) ==
    /\ ws[c].pc = "receive"
    /\ ~alive[c]
    /\ Settle(c, Disconnect([World(c) EXCEPT !.ctx = "except"], ws[c].user_id))
    /\ UNCHANGED <<joined, msgs>>

\* GET /room/{session_id}/state, lines 1222-1233: get_room and get_stats,
\* for any session_id and without a suspension
GetRoomState ==
    /\ rooms' = GetStats(GetRoom(rooms)).rooms
    /\ UNCHANGED <<connections, ws, alive, received, joined, msgs>>

(***************************************************************************)
(* The session routes of routes/live_sessions.py that are marked admin     *)
(* only: create, start, end and delete.  Each handler reads club_settings  *)
(* and the session and then writes; no route modelled here writes          *)
(* club_settings, so the two reads are one step.                           *)
(***************************************************************************)
\* sessions that create_live_session may add to the seeded ones
MaxCreated == 1

\* values of the X-Wallet-Address header: none, the owner's wallet, the
\* admin's wallet in capitals, the wallet of a member
NoWallet == ""
Wallets == {NoWallet, "0xowner", "0xADMIN", "0xmember"}

\* str.lower() and str.startswith("0x") on these values
Lower(wallet) == IF wallet = "0xADMIN" THEN "0xadmin" ELSE wallet
StartsWith0x(wallet) == wallet \in {"0xowner", "0xadmin", "0xADMIN", "0xmember"}

\* the club_settings document of a club with an owner and one admin
ClubSettings ==
    [hand_raise_queue_limit |-> 1, owner_wallet |-> "0xowner",
     admin_wallets |-> {"0xadmin"}]

\* the wallet is the owner's or an admin's (lines 509-511)
IsOwnerOrAdmin(wallet, settings) ==
    \E d \in settings :
        \/ wallet = Lower(d.owner_wallet)
        \/ wallet \in {Lower(w) : w \in d.admin_wallets}

\* lines 505-512: the request is answered with 403
AdminAccessRequired(header, settings) ==
    LET wallet == Lower(header)
    IN  /\ wallet # NoWallet
        /\ StartsWith0x(wallet)
        /\ settings # {}
        /\ ~IsOwnerOrAdmin(wallet, settings)

\* session_id = str(uuid.uuid4()), line 516: ids no other session has
FreshIds == <<"n1", "n2", "n3">>
AdminSessionIds == SessionIds \cup {FreshIds[i] : i \in DOMAIN FreshIds}
NewSessionId(sessions) ==
    FreshIds[CHOOSE i \in DOMAIN FreshIds :
                 /\ FreshIds[i] \notin DOMAIN sessions
                 /\ \A j \in 1..(i - 1) : FreshIds[j] \in DOMAIN sessions]

\* the session whose room the live room model holds
RoomSession == "s1"

\* the values of a session's status (line 532)
Statuses == {"scheduled", "live", "ended"}

AdminOps == {"create_session", "start_session", "end_session", "delete_session"}

\* a handler of a session route: its arguments and the await it is at
AdminReq(op, session_id, wallet) ==
    [op |-> op, pc |-> "start", session_id |-> session_id, wallet |-> wallet,
     queue |-> <<>>, writes |-> 0]

\* sessions created and not deleted, and those handlers in flight will create
SessionsCreated ==
    LET S == {r \in InFlight : r.op = "create_session"}
        RECURSIVE Sum(_)
        Sum(T) == IF T = {} THEN 0
                  ELSE LET x == CHOOSE y \in T : TRUE IN CopiesIn(x, req) + Sum(T \ {x})
    IN  Cardinality({i \in DOMAIN FreshIds : FreshIds[i] \in DOMAIN live_sessions})
        + Sum(S)

otherRoomVars == <<connections, ws, alive, received, joined, msgs>>

\* create_live_session, lines 505-512
CreateSessionCheck ==
    \E wallet \in Wallets :
        /\ LET r == AdminReq("create_session", NULL, wallet)
           IN  IF AdminAccessRequired(wallet, club_settings)
               THEN Refuse(r, "admin_access_required")
               ELSE Spawn([r EXCEPT !.pc = "insert"])
        /\ UNCHANGED <<users, live_sessions, hand_raise_events, club_settings,
                       approvals, rooms>>
        /\ UNCHANGED otherRoomVars

\* create_live_session, lines 514-559: insert_one
CreateSessionInsert ==
    \E r \in InFlight :
        /\ r.op = "create_session" /\ r.pc = "insert"
        /\ LET session_id == NewSessionId(live_sessions)
           IN  /\ live_sessions' =
                     [s \in DOMAIN live_sessions \cup {session_id} |->
                         IF s = session_id
                         THEN [is_live |-> FALSE, current_speaker_id |-> NULL,
                               status |-> "scheduled", hand_raise_queue |-> <<>>]
                         ELSE live_sessions[s]]
               /\ Return(r, [r EXCEPT !.session_id = session_id,
                                      !.writes = r.writes + 1], "ok")
        /\ UNCHANGED <<users, hand_raise_events, club_settings, approvals, rooms>>
        /\ UNCHANGED otherRoomVars

\* the permission check and the lookup only: the status is not tested
SessionRefusalAnyStatus(session_id, wallet, allowed, refusal) ==
    IF AdminAccessRequired(wallet, club_settings) THEN "admin_access_required"
    ELSE IF session_id \notin DOMAIN live_sessions THEN "session_not_found"
    ELSE "none"

\* the permission check and the lookup of the session that start, end and
\* delete begin with: the HTTPException raised, if any; `allowed` is the
\* route's test of the status
SessionRefusal(session_id, wallet, allowed, refusal) ==
    IF AdminAccessRequired(wallet, club_settings) THEN "admin_access_required"
    ELSE IF session_id \notin DOMAIN live_sessions THEN "session_not_found"
    ELSE IF live_sessions[session_id].status \notin allowed THEN refusal
    ELSE "none"

\* update_one({"id": session_id}, {"$set": {"status": status}})
SetStatus(sessions, session_id, status) ==
    IF session_id \in DOMAIN sessions
    THEN [sessions EXCEPT ![session_id].status = status]
    ELSE sessions

\* start_live_session, lines 642-657
StartSessionFind ==
    /\ \E session_id \in AdminSessionIds, wallet \in Wallets :
          LET r == AdminReq("start_session", session_id, wallet)
              e == SessionRefusal(session_id, wallet, {"scheduled"}, "not_scheduled")
          IN  IF e # "none" THEN Refuse(r, e)
              ELSE Spawn([r EXCEPT !.pc = "start_update"])
    /\ UNCHANGED <<users, live_sessions, hand_raise_events, club_settings,
                   approvals, rooms>>
    /\ UNCHANGED otherRoomVars

\* start_live_session, lines 659-673
StartSessionUpdate ==
    \E r \in InFlight :
        /\ r.op = "start_session" /\ r.pc = "start_update"
        /\ live_sessions' = SetStatus(live_sessions, r.session_id, "live")
        /\ Return(r, [r EXCEPT !.writes = r.writes + 1], "ok")
        /\ UNCHANGED <<users, hand_raise_events, club_settings, approvals, rooms>>
        /\ UNCHANGED otherRoomVars

\* end_live_session, lines 747-777: a handler that passes the checks calls
\* room_manager.get_room before it waits for update_one
EndSessionFind ==
    /\ \E session_id \in AdminSessionIds, wallet \in Wallets :
          LET r == AdminReq("end_session", session_id, wallet)
              e == SessionRefusal(session_id, wallet, {"live"}, "not_live")
          IN  IF e # "none" THEN Refuse(r, e) /\ rooms' = rooms
              ELSE /\ Spawn([r EXCEPT !.pc = "end_update"])
                   /\ rooms' = IF session_id = RoomSession
                               THEN GetRoom(rooms) ELSE rooms
    /\ UNCHANGED <<users, live_sessions, hand_raise_events, club_settings, approvals>>
    /\ UNCHANGED otherRoomVars

\* end_live_session, lines 779-798
EndSessionUpdate ==
    \E r \in InFlight :
        /\ r.op = "end_session" /\ r.pc = "end_update"
        /\ live_sessions' = SetStatus(live_sessions, r.session_id, "ended")
        /\ Return(r, [r EXCEPT !.writes = r.writes + 1], "ok")
        /\ UNCHANGED <<users, hand_raise_events, club_settings, approvals, rooms>>
        /\ UNCHANGED otherRoomVars

\* delete_live_session, lines 933-948
DeleteSessionFind ==
    /\ \E session_id \in AdminSessionIds, wallet \in Wallets :
          LET r == AdminReq("delete_session", session_id, wallet)
              e == SessionRefusal(session_id, wallet, Statuses \ {"live"}, "is_live")
          IN  IF e # "none" THEN Refuse(r, e)
              ELSE Spawn([r EXCEPT !.pc = "delete"])
    /\ UNCHANGED <<users, live_sessions, hand_raise_events, club_settings,
                   approvals, rooms>>
    /\ UNCHANGED otherRoomVars

\* delete_live_session, lines 950-952: delete_one
DeleteSessionDelete ==
    \E r \in InFlight :
        /\ r.op = "delete_session" /\ r.pc = "delete"
        /\ live_sessions' = [s \in DOMAIN live_sessions \ {r.session_id} |->
                                live_sessions[s]]
        /\ Return(r, [r EXCEPT !.writes = r.writes + 1], "ok")
        /\ UNCHANGED <<users, hand_raise_events, club_settings, approvals, rooms>>
        /\ UNCHANGED otherRoomVars

(***************************************************************************)
(* services/live_service.py: LiveSessionService.raise_hand keeps the hands *)
(* raised in the array hand_raise_queue of the session document.  A        *)
(* document without the field reads as the empty list.                     *)
(***************************************************************************)
\* the entries pushed to the queues in a behaviour
MaxPushes == 3

\* a call of LiveSessionService.raise_hand: its arguments, the await it is
\* at, and its locals queue and priority
ServiceReq(session_id, user_id) ==
    [op |-> "service_raise_hand", pc |-> "start", session_id |-> session_id,
     user_id |-> user_id, priority_score |-> 0, queue |-> <<>>, writes |-> 0]

\* user_id == entry of Python for a str and a dict: neither type compares
\* with the other, so the comparison falls back to identity and is False
StrEqualsDict(user_id, entry) == FALSE

\* `user_id in queue`: some element of the list equals user_id
InQueue(user_id, queue) ==
    \E i \in DOMAIN queue : StrEqualsDict(user_id, queue[i])

\* user.get("priority_score", 50) if user else 50
PriorityOf(user_id) ==
    IF user_id \in DOMAIN users THEN users[user_id].priority_score
    ELSE DefaultPriority

\* the entries in the queues, and those the calls in flight will push
PushesStarted ==
    LET RECURSIVE Held(_)
        Held(T) == IF T = {} THEN 0
                   ELSE LET s == CHOOSE y \in T : TRUE
                        IN  Len(live_sessions[s].hand_raise_queue) + Held(T \ {s})
    IN  Held(DOMAIN live_sessions)
        + Cardinality({r \in InFlight : r.op = "service_raise_hand"})

\* raise_hand, lines 224-231: get_session and the test of the queue
ServiceRaiseHandGet ==
    /\ \E session_id \in SessionIds, user_id \in UserIds :
          LET r == ServiceReq(session_id, user_id)
          IN  IF session_id \notin DOMAIN live_sessions
              THEN Refuse(r, "ValueError")
              ELSE LET queue == live_sessions[session_id].hand_raise_queue
                   IN  IF InQueue(user_id, queue)
                       THEN Refuse(r, "already_in_queue")
                       ELSE Spawn([r EXCEPT !.pc = "find_user", !.queue = queue])
    /\ UNCHANGED <<users, live_sessions, hand_raise_events, club_settings, approvals>>

\* raise_hand, lines 233-241: the user's priority score
ServiceRaiseHandFindUser ==
    \E r \in InFlight :
        /\ r.op = "service_raise_hand" /\ r.pc = "find_user"
        /\ Step(r, [r EXCEPT !.pc = "push", !.priority_score = PriorityOf(r.user_id)])
        /\ UNCHANGED <<users, live_sessions, hand_raise_events, club_settings, approvals>>

\* update_one({"id": session_id}, {"$push": {"hand_raise_queue": hand_raise}})
PushHandRaise(sessions, session_id, hand_raise) ==
    IF session_id \in DOMAIN sessions
    THEN [sessions EXCEPT ![session_id].hand_raise_queue = Append(@, hand_raise)]
    ELSE sessions

\* raise_hand, lines 243-254: the push, the event, the position returned
ServiceRaiseHandPush ==
    \E r \in InFlight :
        /\ r.op = "service_raise_hand" /\ r.pc = "push"
        /\ live_sessions' = PushHandRaise(live_sessions, r.session_id,
               [user_id |-> r.user_id, priority_score |-> r.priority_score])
        /\ Return(r, [r EXCEPT !.writes = r.writes + 1], "hand_raised")
        /\ UNCHANGED <<users, hand_raise_events, club_settings, approvals>>
(***************************************************************************)
(* The hand-raise routes as served by the event loop.  A response is       *)
(* written to its client before the loop resumes another handler.          *)
(***************************************************************************)
vars == <<users, live_sessions, hand_raise_events, club_settings, req, response,
          approvals, connections, rooms, ws, alive, received, joined, msgs>>

DeliverResponse ==
    /\ response # NoResponse
    /\ response' = NoResponse
    /\ UNCHANGED <<users, live_sessions, hand_raise_events, club_settings, req, approvals>>
    /\ UNCHANGED roomVars

\* step A of a handler, in a behaviour with at most `overlap` handlers
\* suspended at once
Serve(A, overlap) ==
    /\ response = NoResponse
    /\ A
    /\ BagCardinality(req') <= overlap
    /\ EventsStarted' <= MaxEvents
    /\ SpeechesStarted' <= MaxSpeeches
    /\ UNCHANGED roomVars

HRNext(overlap) ==
    \/ DeliverResponse
    \/ Serve(RaiseHandFindUser, overlap)
    \/ Serve(RaiseHandFindExisting, overlap)
    \/ Serve(RaiseHandCount, overlap)
    \/ Serve(RaiseHandInsert, overlap)
    \/ Serve(AwardXpFind, overlap)
    \/ Serve(AwardXpUpdate, overlap)
    \/ Serve(RaiseHandIncStats, overlap)
    \/ Serve(LowerHandFind, overlap)
    \/ Serve(LowerHandUpdate, overlap)
    \/ Serve(GetQueueFind, overlap)
    \/ Serve(GetQueueEnrich, overlap)
    \/ Serve(ApproveFind, overlap)
    \/ Serve(ApproveUpdateEvent, overlap)
    \/ Serve(ApproveUpdateSession, overlap)
    \/ Serve(EndSpeechFind, overlap)
    \/ Serve(EndSpeechUpdateEvent, overlap)
    \/ Serve(EndSpeechClearSpeaker, overlap)
    \/ Serve(EndSpeechIncStats, overlap)

\* Spec: the handlers of two requests overlap, and the club has set its
\* queue limit to 1.
Init ==
    /\ HRInit
    /\ club_settings = {[hand_raise_queue_limit |-> 1]}
    /\ RoomInit

Next == HRNext(Cardinality(Overlap))

Spec == Init /\ [][Next]_vars

\* SpecSeq: each request is served to its end before the next arrives.
SeqNext == HRNext(Cardinality({"a"}))

SpecSeq == Init /\ [][SeqNext]_vars

\* SpecDefault: as SpecSeq, for a club without a settings document: the
\* queue limit is the default.
DefaultInit ==
    /\ HRInit
    /\ club_settings = {}
    /\ RoomInit

SpecDefault == DefaultInit /\ [][SeqNext]_vars


(***************************************************************************)
(* The live room: the websocket handlers of one event loop.                *)
(***************************************************************************)
\* step A of a websocket handler
RoomServe(A) ==
    /\ A
    /\ msgs' <= MaxMessages
    /\ UNCHANGED hrVars

\* one step of the handler of websocket c
RoomStep(c) ==
        \/ RoomServe(WsReject(c))
        \/ RoomServe(WsConnect(c))
        \/ RoomServe(ClientClose(c))
        \/ RoomServe(ConnectBroadcast(c))
        \/ RoomServe(BroadcastNext(c))
        \/ RoomServe(ReceiveChat(c))
        \/ RoomServe(ReceiveHandRaise(c))
        \/ RoomServe(ReceivePromote(c))
        \/ RoomServe(ReceiveDemote(c))
        \/ RoomServe(ReceiveReaction(c))
        \/ RoomServe(ReceivePing(c))
        \/ RoomServe(ReceiveIgnored(c))
        \/ RoomServe(ReceiveMalformed(c))
        \/ RoomServe(ReceiveTooDeep(c))
        \/ RoomServe(ReceiveNotObject(c))
        \/ RoomServe(ReceiveDisconnect(c))

RoomNext ==
    \/ \E c \in Conns : RoomStep(c)
    \/ RoomServe(GetRoomState)

\* SpecRoom: clients open websockets to the live session, send messages
\* and close, in any interleaving of the handlers.
SpecRoom == Init /\ [][RoomNext]_vars

\* SpecJoin: the clients only join and leave; they send no message.
JoinNext ==
    \E c \in Conns :
        \/ RoomServe(WsReject(c))
        \/ RoomServe(WsConnect(c))
        \/ RoomServe(ClientClose(c))
        \/ RoomServe(ConnectBroadcast(c))
        \/ RoomServe(BroadcastNext(c))
        \/ RoomServe(ReceiveDisconnect(c))

SpecJoin == Init /\ [][JoinNext]_vars

\* SpecTalk: two clients are in the live room at a time and exchange every
\* kind of message but chat, in any interleaving of their handlers.
Talkers == {1, 2}

TalkNext ==
    \E c \in Talkers :
        \/ RoomServe(WsReject(c))
        \/ RoomServe(WsConnect(c))
        \/ RoomServe(ClientClose(c))
        \/ RoomServe(ConnectBroadcast(c))
        \/ RoomServe(BroadcastNext(c))
        \/ RoomServe(ReceiveHandRaise(c))
        \/ RoomServe(ReceivePromote(c))
        \/ RoomServe(ReceiveDemote(c))
        \/ RoomServe(ReceiveReaction(c))
        \/ RoomServe(ReceivePing(c))
        \/ RoomServe(ReceiveIgnored(c))
        \/ RoomServe(ReceiveMalformed(c))
        \/ RoomServe(ReceiveTooDeep(c))
        \/ RoomServe(ReceiveNotObject(c))
        \/ RoomServe(ReceiveDisconnect(c))

SpecTalk == Init /\ [][TalkNext]_vars

\* SpecChat: the clients join the live room and post chat messages.
ChatServe(A) ==
    /\ A
    /\ msgs' <= MaxChats
    /\ UNCHANGED hrVars

ChatNext ==
    \E c \in Talkers :
        \/ ChatServe(WsConnect(c))
        \/ ChatServe(ConnectBroadcast(c))
        \/ ChatServe(BroadcastNext(c))
        \/ ChatServe(ReceiveChat(c))

SpecChat == Init /\ [][ChatNext]_vars

\* step A of a handler of a session route
AdminServe(A, overlap) ==
    /\ response = NoResponse
    /\ A
    /\ BagCardinality(req') <= overlap
    /\ SessionsCreated' <= MaxCreated

AdminNext ==
    \/ DeliverResponse
    \/ AdminServe(CreateSessionCheck, Cardinality(Overlap))
    \/ AdminServe(CreateSessionInsert, Cardinality(Overlap))
    \/ AdminServe(StartSessionFind, Cardinality(Overlap))
    \/ AdminServe(StartSessionUpdate, Cardinality(Overlap))
    \/ AdminServe(EndSessionFind, Cardinality(Overlap))
    \/ AdminServe(EndSessionUpdate, Cardinality(Overlap))
    \/ AdminServe(DeleteSessionFind, Cardinality(Overlap))
    \/ AdminServe(DeleteSessionDelete, Cardinality(Overlap))

\* SpecAdmin: the session routes of a club that has an owner and an admin,
\* with the handlers of two requests overlapping.
AdminInit ==
    /\ HRInit
    /\ club_settings = {ClubSettings}
    /\ RoomInit

SpecAdmin == AdminInit /\ [][AdminNext]_vars

(***************************************************************************)
(* Repeated end_speech calls.                                              *)
(***************************************************************************)
\* the end_speech calls that find their record in a behaviour of SpecSpeech
MaxEndings == 2

\* step A of a handler that is served to its end before the next arrives
SpeechServe(A) ==
    /\ response = NoResponse
    /\ A
    /\ BagCardinality(req') <= Cardinality({"a"})
    /\ EventsStarted' <= MaxEvents
    /\ SpeechesStarted' <= MaxEndings
    /\ UNCHANGED roomVars

\* SpecSpeech: hands are raised, speakers approved and speeches ended, one
\* request after the other.
SpeechNext ==
    \/ DeliverResponse
    \/ SpeechServe(RaiseHandFindUser)
    \/ SpeechServe(RaiseHandFindExisting)
    \/ SpeechServe(RaiseHandCount)
    \/ SpeechServe(RaiseHandInsert)
    \/ SpeechServe(AwardXpFind)
    \/ SpeechServe(AwardXpUpdate)
    \/ SpeechServe(RaiseHandIncStats)
    \/ SpeechServe(ApproveFind)
    \/ SpeechServe(ApproveUpdateEvent)
    \/ SpeechServe(ApproveUpdateSession)
    \/ SpeechServe(EndSpeechFind)
    \/ SpeechServe(EndSpeechUpdateEvent)
    \/ SpeechServe(EndSpeechClearSpeaker)
    \/ SpeechServe(EndSpeechIncStats)

SpecSpeech == Init /\ [][SpeechNext]_vars

(***************************************************************************)
(* The hand-raise queue of LiveSessionService.                             *)
(***************************************************************************)
\* step A of a call of the service
ServiceServe(A) ==
    /\ response = NoResponse
    /\ A
    /\ BagCardinality(req') <= Cardinality({"a"})
    /\ PushesStarted' <= MaxPushes
    /\ UNCHANGED roomVars

\* SpecService: calls of raise_hand, each returning before the next is made
ServiceNext ==
    \/ DeliverResponse
    \/ ServiceServe(ServiceRaiseHandGet)
    \/ ServiceServe(ServiceRaiseHandFindUser)
    \/ ServiceServe(ServiceRaiseHandPush)

SpecService == Init /\ [][ServiceNext]_vars
(***************************************************************************)
(* Claims about the hand-raise queue.                                      *)
(***************************************************************************)
\* the pending records of each session and the approved records whose
\* speech has not ended
ActiveSpeeches(session_id) ==
    {i \in EventIds : /\ hand_raise_events[i].live_session_id = session_id
                      /\ hand_raise_events[i].status = "approved"
                      /\ ~hand_raise_events[i].speech_ended}

\* C1: for every (user_id, session_id) at most one HandRaiseEvent is pending
\* in every reachable state, also when raise_hand requests for the same user
\* and session overlap.
C1_OnePendingPerUser ==
    \A u \in UserIds, s \in SessionIds : Cardinality(PendingOf(u, s)) <= 1

\* C2: at most one HandRaiseEvent per session is approved with its speech
\* not yet ended.
C2_OneActiveSpeaker ==
    \A s \in SessionIds : Cardinality(ActiveSpeeches(s)) <= 1

\* C3: the number of pending records of a session never exceeds the
\* configured limit, also when raise_hand requests of different users overlap.
C3_PendingWithinLimit ==
    \A s \in SessionIds :
        \A d \in club_settings : Cardinality(PendingIn(s)) <= d.hand_raise_queue_limit

\* C4: get_queue returns the pending records ordered by priority_score
\* descending and, among records of equal priority, by raise time ascending
\* (documents are inserted in the order of their raised_at).
C4_QueueOrder ==
    response.op = "get_queue" =>
        \A a, b \in DOMAIN response.queue :
            a < b =>
                LET x == hand_raise_events[response.queue[a]]
                    y == hand_raise_events[response.queue[b]]
                IN  \/ x.priority_score > y.priority_score
                    \/ /\ x.priority_score = y.priority_score
                       /\ response.queue[a] < response.queue[b]

\* C5: for any HandRaiseEvent at most one approve_speaker call reports
\* success.
C5_OneApprovalSucceeds ==
    \A h \in DOMAIN approvals : approvals[h] <= 1

\* the preconditions of the routes, as the claim C6 lists them
SessionIsLive(s) == s \in DbSessions /\ live_sessions[s].is_live
UserExists(u) == u \in DbUsers
IsModerator(u) == u \in DbUsers /\ users[u].role \in {"moderator", "admin", "owner"}
HasStatus(h, s, status) ==
    /\ h \in EventIds
    /\ hand_raise_events[h].live_session_id = s
    /\ hand_raise_events[h].status = status
IsError(result) == result \notin {"none", "ok"}
Database == <<users, live_sessions, hand_raise_events, club_settings>>

\* a handler is suspended only past the checks its precondition passed
PreconditionHeld(r) ==
    /\ r.op = "raise_hand" =>
          /\ SessionIsLive(r.session_id) /\ UserExists(r.user_id)
          /\ r.pc \in {"count_pending", "insert"} =>
                ~\E i \in EventIds : /\ hand_raise_events[i].user_id = r.user_id
                                     /\ hand_raise_events[i].live_session_id = r.session_id
                                     /\ hand_raise_events[i].status = "pending"
          /\ r.pc = "insert" =>
                \A d \in club_settings :
                    Cardinality(PendingIn(r.session_id)) < d.hand_raise_queue_limit
    /\ r.op = "lower_hand" =>
          /\ HasStatus(r.hand_raise_id, r.session_id, "pending")
          /\ hand_raise_events[r.hand_raise_id].user_id = r.user_id
    /\ r.op = "approve_speaker" =>
          /\ IsModerator(r.moderator_id)
          /\ r.pc = "ap_update" => HasStatus(r.hand_raise_id, r.session_id, "pending")
    /\ r.op = "end_speech" =>
          /\ IsModerator(r.moderator_id)
          /\ r.pc = "es_update" => HasStatus(r.hand_raise_id, r.session_id, "approved")

\* C6: when requests do not overlap, a hand-raise operation whose
\* precondition is violated returns an explicit error and leaves the
\* hand-raise records, current_speaker_id, XP and voice stats unchanged: no
\* handler gets past a violated precondition, a handler that returns an
\* error has written nothing, and the step returning the error writes
\* nothing.
C6_ErrorsLeaveStateUnchanged ==
    /\ [](\A r \in InFlight : PreconditionHeld(r))
    /\ [](IsError(response.result) => response.writes = 0)
    /\ [][IsError(response'.result) => Database' = Database]_vars

\* C6: each of the errors is returned.
C6_Witness ==
    /\ response.op = "raise_hand"
    /\ response.result = "queue_full"
    /\ response.writes = 0
    /\ hand_raise_events # <<>>


(***************************************************************************)
(* Claims about the live room.                                             *)
(***************************************************************************)
\* the handler k has handed its user_joined event to the websocket c and is
\* suspended in that send_json
HandedJoinTo(k, c) ==
    /\ ws[k].pc = "broadcast"
    /\ ws[k].ctx = "connect"
    /\ Len(ws[k].stack) = 1
    /\ LET f == ws[k].stack[1]
       IN  /\ f.msg.type = "user_joined"
           /\ f.disconnected = <<>>
           /\ connections.present /\ connections.gen = f.gen
           /\ f.pos \in Used(connections)
           /\ connections.entries[f.pos].websocket = c

\* C7: connect sends room_state to the joining connection before it
\* broadcasts user_joined, so in every interleaving with the other handlers
\* of the room the first event a joining connection receives is room_state:
\* a joined connection whose socket is open has received room_state, and no
\* connection has received another event first.
C7_RoomStateFirst ==
    \A c \in Conns :
        /\ received[c].first \in {"none", "room_state"}
        /\ (alive[c] /\ ws[c].pc \notin {"new", "done"}) =>
               (received[c].first = "room_state" /\ received[c].room_state.seen)

\* C7: a connection that is still suspended in the send of its room_state
\* has been handed the user_joined event of a later joiner.
C7_Witness ==
    \E c, k \in Conns :
        /\ c # k
        /\ alive[c]
        /\ ws[c].pc = "joined"
        /\ HandedJoinTo(k, c)
        /\ received[c].first = "room_state"

\* C8: a connection never receives a user_joined event whose user_id is its
\* own, for any sequence of joins, leaves and rejoins.
C8_NoOwnJoin ==
    \A c \in Conns : ~received[c].own_join

\* C8: a joiner's broadcast of user_joined has passed the joiner's own
\* entry of the connections dict and has gone on to another connection.
C8_Witness ==
    \E c, k \in Conns :
        /\ c # k
        /\ alive[c] /\ alive[k]
        /\ HandedJoinTo(k, c)
        /\ ws[k].user_id \in Keys(connections)
        /\ Lookup(connections, ws[k].user_id) = k
        /\ EntryOf(connections, ws[k].user_id) < ws[k].stack[1].pos

\* the step hands room_state to the connection c
GetsRoomState(c) ==
    /\ ~received[c].room_state.seen
    /\ received'[c].room_state.seen

\* C9 as stated: the room_state snapshot received by the Nth joiner lists
\* as participants exactly the N-1 prior joiners, and never the joiner
\* itself.
C9_SnapshotOfPriorJoiners ==
    [][\A c \in Conns :
          GetsRoomState(c) =>
              /\ received'[c].room_state.participants = joined
              /\ ws'[c].user_id \notin received'[c].room_state.participants]_vars

\* C9 amended: for any sequence of joins (every prior joiner is still a
\* participant), the room_state snapshot received by the Nth joiner lists
\* as participants exactly the N-1 prior joiners and the joiner itself,
\* never a user that joins later.
C9_SnapshotWithJoiner ==
    [][\A c \in Conns :
          (GetsRoomState(c) /\ DOMAIN rooms.participants = joined) =>
              received'[c].room_state.participants = joined \cup {ws'[c].user_id}]_vars

\* C9: the second joiner has received a snapshot that lists the first
\* joiner and itself.
C9_Witness ==
    \E c \in Conns :
        /\ received[c].room_state.seen
        /\ received[c].room_state.participants = WsUsers
        /\ joined = WsUsers

\* the user_ids in a list
Elements(list) == {list[i] : i \in DOMAIN list}

\* C10: speakers and listeners are disjoint, contain only keys of
\* participants, and a participant is in speakers exactly when its role is
\* speaker and in listeners exactly when its role is listener.
C10_RoleListsConsistent ==
    /\ Elements(rooms.speakers) \cap Elements(rooms.listeners) = {}
    /\ Elements(rooms.speakers) \cup Elements(rooms.listeners)
          \subseteq DOMAIN rooms.participants
    /\ \A u \in DOMAIN rooms.participants :
          /\ u \in Elements(rooms.speakers) <=> rooms.participants[u] = "speaker"
          /\ u \in Elements(rooms.listeners) <=> rooms.participants[u] = "listener"

\* C11: in every reachable state of the room, every user_id in hand_raised
\* is also a key of participants.
C11_HandRaisedAreParticipants ==
    Elements(rooms.hand_raised) \subseteq DOMAIN rooms.participants

\* C14: the room map holds a record only for a session that has at least
\* one participant.
C14_RoomOnlyWithParticipants ==
    rooms.present => DOMAIN rooms.participants # {}

\* the list memberships and the role of user v are the same before and
\* after the step
Untouched(v) ==
    /\ v \in DOMAIN rooms.participants <=> v \in DOMAIN rooms'.participants
    /\ v \in DOMAIN rooms.participants =>
          rooms'.participants[v] = rooms.participants[v]
    /\ In(v, rooms.speakers) <=> In(v, rooms'.speakers)
    /\ In(v, rooms.listeners) <=> In(v, rooms'.listeners)
    /\ In(v, rooms.hand_raised) <=> In(v, rooms'.hand_raised)

Absent(u, room) ==
    /\ u \notin DOMAIN room.participants
    /\ ~In(u, room.speakers)
    /\ ~In(u, room.listeners)
    /\ ~In(u, room.hand_raised)

\* C13: when the handler of a closed websocket has called
\* disconnect(session, u), u is absent from participants, speakers,
\* listeners and hand_raised together; and in no step of any handler does u
\* leave participants and stay in one of the lists, so no other handler
\* observes a partial removal.
C13_DisconnectRemovesEverywhere ==
    [][/\ \A c \in Conns : ReceiveDisconnect(c) => Absent(ws[c].user_id, rooms')
       /\ \A u \in DOMAIN rooms.participants :
             u \notin DOMAIN rooms'.participants => Absent(u, rooms')]_vars

\* C13: a speaker has disconnected while another participant stays: its
\* handler is sending user_left and the user is in none of the four.
C13_Witness ==
    \E c \in Conns :
        /\ ws[c].ctx = "except"
        /\ ws[c].pc = "broadcast"
        /\ ws[c].role = "speaker"
        /\ ws[c].stack[1].msg = Event("user_left", ws[c].user_id)
        /\ Absent(ws[c].user_id, rooms)
        /\ DOMAIN rooms.participants # {}

\* a send of the fan-out that handler c is suspended in has failed
SendFailed(c) ==
    /\ ws[c].pc = "broadcast"
    /\ \E i \in DOMAIN ws[c].stack : ws[c].stack[i].disconnected # <<>>

\* C15: when a send of a broadcast has failed, no error reaches the caller
\* of the broadcast: the handler that broadcasts for a client message goes
\* on handling messages and never enters its except clause.
C15_FailedSendIsIsolated ==
    [][\A c \in Conns :
          (SendFailed(c) /\ ws[c].ctx = "message") => ws'[c].ctx = "message"]_vars

\* the last n of the chat messages 1..total, in the order they were posted
LastPosted(n, total) == [i \in 1..n |-> total - n + i]

\* C16: after any sequence of handle_chat calls, chat_messages holds at
\* most 100 entries, and they are the most recently appended messages in
\* the order they were appended.
C16_ChatKeepsLastHundred ==
    /\ Len(rooms.chat_messages) <= ChatCap
    /\ rooms.chat_messages =
          LastPosted(IF msgs > ChatCap THEN ChatCap ELSE msgs, msgs)

\* C16: 150 chat messages have been posted, and the last 100 are retained.
C16_Witness ==
    /\ msgs = ChatCap + 50
    /\ Len(rooms.chat_messages) = ChatCap
    /\ rooms.chat_messages[1] = 51
    /\ rooms.chat_messages[ChatCap] = ChatCap + 50

\* C17: get_stats is a pure read: in every reachable state a call changes
\* no room state and adds no entry to the room map, and its four counts are
\* the sizes of participants, speakers, listeners and hand_raised.
C17_GetStatsIsPureRead ==
    /\ GetStats(rooms).rooms = rooms
    /\ GetStats(rooms).stats =
          [total_participants |-> Cardinality(DOMAIN rooms.participants),
           speakers_count |-> Len(rooms.speakers),
           listeners_count |-> Len(rooms.listeners),
           hand_raised_count |-> Len(rooms.hand_raised)]

\* handler c is suspended in the broadcast of hand_raised_update for user u
SendsHandUpdate(c, u) ==
    /\ ws[c].pc = "broadcast"
    /\ ws[c].stack[1].msg = Event("hand_raised_update", u)

C19_UndeserializableIsDropped ==
    [][\A c \in Conns, data \in Texts :
          (JsonLoads(data) \in {"JSONDecodeError", "RecursionError"}
              /\ ReceiveText(c, data)) =>
                 /\ UNCHANGED <<connections, rooms, received>>
                 /\ ws'[c] = ws[c]]_vars

\* C20: creating, starting, ending and deleting a live session are admin
\* only: a step of a session route changes db.live_sessions only for a
\* request whose wallet address is the owner's or an admin's.
C20_SessionRoutesAdminOnly ==
    [][\A r \in InFlight :
          (r.op \in AdminOps /\ req' = req (-) SetToBag({r})
              /\ live_sessions' # live_sessions) =>
                 IsOwnerOrAdmin(Lower(r.wallet), club_settings)]_vars

\* handler c has, in this step, begun a fan-out of msg and handed msg to the
\* open websocket `to`: its stack holds a frame for msg where it held none
\* before, and the frame's iterator is at the entry of `to`
SendsFirst(c, msg, to) ==
    /\ ws'[c].pc = "broadcast"
    /\ alive[to]
    /\ \E i \in DOMAIN ws'[c].stack :
          /\ ws'[c].stack[i].msg = msg
          /\ i \in DOMAIN ws[c].stack => ws[c].stack[i].msg # msg
          /\ i = Len(ws'[c].stack)
          /\ ws'[c].stack[i].pos \in Used(connections')
          /\ connections'.entries[ws'[c].stack[i].pos].websocket = to

\* C26: for each departure of a participant every remaining connection
\* receives exactly one user_left: user_left for user u is sent to an open
\* connection only by the disconnect in which u leaves the participants,
\* never by a later disconnect of the same user.
C26_OneUserLeftPerDeparture ==
    [][\A c, to \in Conns, u \in WsUsers :
          SendsFirst(c, Event("user_left", u), to) =>
              u \in DOMAIN rooms.participants]_vars

\* C27: a broadcast that is suspended at a send while another handler
\* connects or disconnects raises no error to its caller: a handler that
\* broadcasts for a client message stays in its message loop.
C27_BroadcastSurvivesMapChange ==
    [][\A c \in Conns :
          (ws[c].pc = "broadcast" /\ ws[c].ctx = "message") =>
              ws'[c].ctx = "message"]_vars

\* handler c serves an open client connection and has not begun to leave
Serving(c) ==
    /\ alive[c]
    /\ ws[c].pc \in {"joined", "broadcast", "receive"}
    /\ ws[c].ctx # "except"

\* C28: while a client connection is open and its handler is running, its
\* user_id is a participant of the room and has a registered connection.
C28_OpenConnectionStaysRegistered ==
    \A c \in Conns :
        Serving(c) =>
            /\ ws[c].user_id \in DOMAIN rooms.participants
            /\ connections.present /\ ws[c].user_id \in Keys(connections)

\* C29: in every reachable state hand_raised and speakers are disjoint.
C29_HandRaisedAreListeners ==
    Elements(rooms.hand_raised) \cap Elements(rooms.speakers) = {}

\* C30: a promote or demote message changes the room only when its sender
\* is currently a speaker of the room (the sender being the only connection
\* of its user_id).
C30_OnlyCurrentSpeakersChangeRoles ==
    [][\A c \in Conns, u \in WsUsers :
          (/\ PromoteTo(c, u) \/ DemoteTo(c, u)
           /\ rooms' # rooms
           /\ \A k \in Conns \ {c} : ws[k].user_id # ws[c].user_id) =>
              /\ ws[c].user_id \in DOMAIN rooms.participants
              /\ rooms.participants[ws[c].user_id] = "speaker"]_vars

\* C22: the status of a HandRaiseEvent changes only from "pending": a record
\* that is "approved" or "expired" keeps its status in every step, also when
\* lower_hand and approve_speaker of the same record interleave.
C22_StatusOnlyLeavesPending ==
    [][\A i \in DOMAIN hand_raise_events :
          hand_raise_events[i].status # "pending" =>
              hand_raise_events'[i].status = hand_raise_events[i].status]_vars

\* C24: whenever no approve_speaker or end_speech call is in progress, the
\* current_speaker_id of a session is non-null exactly when some
\* HandRaiseEvent of the session is approved with its speech not ended, and
\* it is then the user_id of every such record.
C24_CurrentSpeakerIsActiveSpeech ==
    req = EmptyBag =>
        \A s \in DOMAIN live_sessions :
            /\ live_sessions[s].current_speaker_id # NULL <=> ActiveSpeeches(s) # {}
            /\ \A i \in ActiveSpeeches(s) :
                  hand_raise_events[i].user_id = live_sessions[s].current_speaker_id

\* the approved records of a user
ApprovedOf(user_id) ==
    {i \in EventIds : /\ hand_raise_events[i].user_id = user_id
                      /\ hand_raise_events[i].status = "approved"}

\* C23: end_speech takes effect at most once per approved hand-raise: the
\* total_speeches of a user never exceeds the number of that user's approved
\* records.
C23_EndSpeechAtMostOnce ==
    \A u \in DOMAIN users : users[u].total_speeches <= Cardinality(ApprovedOf(u))

\* the step returns the success response of route op
Succeeds(op) == response'.op = op /\ response'.result = "ok"

\* the step returns an HTTPException of route op
Fails(op) == response'.op = op /\ response'.result \notin {"ok", "none"}

\* the handlers of route op that pass their checks in this step and are
\* suspended at their write
Accepted(op) ==
    {r \in BagToSet(req') : r.op = op /\ CopiesIn(r, req') > CopiesIn(r, req)}

\* the handlers of route op that return in this step
Returning(op) ==
    {r \in InFlight : r.op = op /\ CopiesIn(r, req') < CopiesIn(r, req)}

\* the status of session s, NULL if there is no such session
StatusOf(sessions, s) == IF s \in DOMAIN sessions THEN sessions[s].status ELSE NULL

\* C21: a session that is created has status "scheduled"; start_live_session
\* passes its checks only for a session it finds "scheduled", then succeeds
\* and writes status "live"; end_live_session passes its checks only for a
\* session it finds "live", then succeeds and writes status "ended"; a start
\* or end that fails leaves every session as it was.
C21_SessionLifecycle ==
    [][/\ \A s \in DOMAIN live_sessions' \ DOMAIN live_sessions :
              live_sessions'[s].status = "scheduled"
       /\ \A r \in Accepted("start_session") :
              StatusOf(live_sessions, r.session_id) = "scheduled"
       /\ \A r \in Accepted("end_session") :
              StatusOf(live_sessions, r.session_id) = "live"
       /\ \A r \in Returning("start_session") :
              /\ Succeeds("start_session")
              /\ StatusOf(live_sessions', r.session_id) \in {"live", NULL}
       /\ \A r \in Returning("end_session") :
              /\ Succeeds("end_session")
              /\ StatusOf(live_sessions', r.session_id) \in {"ended", NULL}
       /\ (Succeeds("start_session") => Returning("start_session") # {})
       /\ (Succeeds("end_session") => Returning("end_session") # {})
       /\ (Fails("start_session") \/ Fails("end_session")) =>
              live_sessions' = live_sessions]_vars

\* a session that was created has been started and ended, and the end
\* request has just returned its success response
C21_Witness ==
    \E s \in DOMAIN live_sessions \ DbSessions :
        /\ live_sessions[s].status = "ended"
        /\ response.op = "end_session" /\ response.result = "ok"

\* C25: no user_id occurs twice in the hand_raise_queue of a session.
C25_QueueHoldsUserOnce ==
    \A s \in DOMAIN live_sessions :
        LET queue == live_sessions[s].hand_raise_queue
        IN  \A i, j \in DOMAIN queue : queue[i].user_id = queue[j].user_id => i = j
====
